---------------------------- MODULE Spec2Model ----------------------------
(***************************************************************************)
(* Model of caffe2/operators/order_switch_ops_cudnn.cc: the cuDNN          *)
(* NHWC2NCHW and NCHW2NHWC operators, their shared tensor-descriptor       *)
(* derivation (SetTensorDescriptor), the output-shape computation and the  *)
(* descriptor cache keyed on the last input dimension list.                *)
(*                                                                         *)
(* Sequences are 1-based here; the C++ index i is position i + 1.          *)
(***************************************************************************)
EXTENDS Integers, Sequences, FiniteSets, TLC

(***************************************************************************)
(* Bounds of the model.                                                    *)
(***************************************************************************)
\* largest rank of a dimension list given to the pure derivation
MaxRank == 6
\* largest extent of one axis given to the pure derivation
MaxExtent == 2
\* largest rank of an input tensor of an operator run
MaxRunRank == 5

(***************************************************************************)
(* Arithmetic and sequence helpers.                                        *)
(***************************************************************************)
RECURSIVE Prod(_)
Prod(s) == IF s = <<>> THEN 1 ELSE Head(s) * Prod(Tail(s))

RECURSIVE SeqsOf(_, _)
SeqsOf(S, n) ==
  IF n = 0 THEN {<<>>}
  ELSE {<<x>> \o t : x \in S, t \in SeqsOf(S, n - 1)}

\* An undefined read is resolved by a record ub = [crash, word]: the process
\* dies at the read (crash) or the read yields the integer `word`.
NoUB == [crash |-> FALSE, word |-> 0]

\* std::vector<int>::operator[] at C++ index i; a read past the end is
\* undefined behaviour
At(data_dims, i, ub) ==
  IF i + 1 <= Len(data_dims) THEN data_dims[i + 1] ELSE ub.word

\* std::accumulate(begin + l, begin + r, 1, multiplies): the product of the
\* C++ range [l, r); with l > r the loop runs off the vector (undefined
\* behaviour)
Accumulate(data_dims, l, r, ub) ==
  IF l > r THEN ub.word ELSE Prod(SubSeq(data_dims, l + 1, r))

(***************************************************************************)
(* Storage orders and element types.                                       *)
(***************************************************************************)
Orders == {"NCHW", "NHWC"}

\* faulty variant: the dispatch list also names double
DispatchTypesWithDouble == {"float", "half", "double"}

\* the element types RunOnDevice dispatches on: TensorTypes<float, at::Half>
DispatchTypes == {"float", "half"}

\* element types a tensor may carry ("double" stands for any other type)
ElemTypes == {"float", "half", "double"}

(***************************************************************************)
(* cuDNN tensor descriptors.  A descriptor is a record                     *)
(*   [type, dims, strides]; a created but never set descriptor is Unset.   *)
(***************************************************************************)
Unset == [type |-> "none", dims |-> <<>>, strides |-> <<>>]

AllPositive(s) == \A i \in 1..Len(s) : s[i] > 0

\* cudnnSetTensor4dDescriptor(desc, format, type, N, C, H, W): BAD_PARAM when
\* an extent is not positive, else the fully packed strides of the format
SetTensor4dDescriptor(order, data_type, N, C, H, W) ==
  IF ~AllPositive(<<N, C, H, W>>)
  THEN [status |-> "BAD_PARAM", desc |-> Unset]
  ELSE [status |-> "OK",
        desc |-> [type |-> data_type,
                  dims |-> <<N, C, H, W>>,
                  strides |-> IF order = "NCHW"
                              THEN <<C * H * W, H * W, W, 1>>
                              ELSE <<H * W * C, 1, W * C, C>>]]

\* cudnnSetTensorNdDescriptor(desc, type, 5, dims, strides)
SetTensorNdDescriptor(data_type, dims, strides) ==
  IF ~AllPositive(dims)
  THEN [status |-> "BAD_PARAM", desc |-> Unset]
  ELSE [status |-> "OK",
        desc |-> [type |-> data_type, dims |-> dims, strides |-> strides]]

\* faulty variant: the channel-last strides written as the mirror image of
\* the NCHW strides
Strides5Mirrored(order, C, H, W, D) ==
  IF order = "NCHW"
  THEN <<C * H * W * D, H * W * D, W * D, D, 1>>
  ELSE <<C * H * W * D, 1, W * D, D, H * W * D>>

\* the strides array of the rank >= 5 branch
Strides5(order, C, H, W, D) ==
  IF order = "NCHW"
  THEN <<C * H * W * D, H * W * D, W * D, D, 1>>
  ELSE <<C * H * W * D, 1, W * D * C, D * C, C>>

\* faulty variant: the collapsed range starts right after H for both orders
DBeginAfterH(order) == 3

\* l_iter: C++ index where the collapsed trailing spatial axes begin
DBegin(order) == IF order = "NCHW" THEN 4 ELSE 3

\* r_iter: C++ index one past the collapsed trailing spatial axes
DEnd(order, ndim) == IF order = "NCHW" THEN ndim ELSE ndim - 1

\* SetTensorDescriptor(data_type, order, data_dims, data_desc): the status
\* of the cuDNN call and the descriptor written on success.  `ub` resolves
\* the out-of-range reads (only ranks below 3 read out of range).
SetTensorDescriptor(data_type, order, data_dims, ub) ==
  LET ndim == Len(data_dims)
      N == data_dims[1]
      C == IF order = "NCHW" THEN data_dims[2] ELSE data_dims[ndim]
  IN IF ndim = 3
     THEN LET H == 1
              W == IF order = "NCHW" THEN data_dims[3] ELSE data_dims[2]
          IN SetTensor4dDescriptor(order, data_type, N, C, H, W)
     ELSE IF ndim = 4
     THEN LET H == IF order = "NCHW" THEN data_dims[3] ELSE data_dims[2]
              W == IF order = "NCHW" THEN data_dims[4] ELSE data_dims[3]
          IN SetTensor4dDescriptor(order, data_type, N, C, H, W)
     ELSE IF ndim < 3 /\ ub.crash
     THEN [status |-> "SIGSEGV", desc |-> Unset]
     ELSE LET H == IF order = "NCHW" THEN At(data_dims, 2, ub)
                                     ELSE At(data_dims, 1, ub)
              W == IF order = "NCHW" THEN At(data_dims, 3, ub)
                                     ELSE At(data_dims, 2, ub)
              D == Accumulate(data_dims, DBegin(order), DEnd(order, ndim), ub)
          IN SetTensorNdDescriptor(data_type, <<N, C, H, W, D>>,
                                   Strides5(order, C, H, W, D))

(***************************************************************************)
(* Output dimension lists.                                                 *)
(***************************************************************************)
\* CuDNNNHWC2NCHWOp::DoRunWithType: Y_dims = [N, C, X_dims[1 .. ndim-1)]
NHWC2NCHW_Y_dims(X_dims) ==
  LET ndim == Len(X_dims)
  IN <<X_dims[1], X_dims[ndim]>> \o SubSeq(X_dims, 2, ndim - 1)

\* faulty variant: the spatial copy starts one element early and drops the
\* last extent
NCHW2NHWC_Y_dimsOffByOne(X_dims) ==
  LET ndim == Len(X_dims)
  IN <<X_dims[1]>> \o SubSeq(X_dims, 2, ndim - 1) \o <<X_dims[2]>>

\* CuDNNNCHW2NHWCOp::DoRunWithType: Y_dims = [N, X_dims[2 .. ndim), C]
NCHW2NHWC_Y_dims(X_dims) ==
  LET ndim == Len(X_dims)
  IN <<X_dims[1]>> \o SubSeq(X_dims, 3, ndim) \o <<X_dims[2]>>


(***************************************************************************)
(* Logical indices of a descriptor and their linear offsets.               *)
(***************************************************************************)
RECURSIVE Indices(_)
Indices(dims) ==
  IF dims = <<>> THEN {<<>>}
  ELSE {<<i>> \o t : i \in 0..(Head(dims) - 1), t \in Indices(Tail(dims))}

RECURSIVE Offset(_, _)
Offset(idx, strides) ==
  IF idx = <<>> THEN 0
  ELSE Head(idx) * Head(strides) + Offset(Tail(idx), Tail(strides))

Offsets(desc) == {Offset(idx, desc.strides) : idx \in Indices(desc.dims)}

(***************************************************************************)
(* Tensors.  A tensor is a record [dims, dtype, data]; data is its storage *)
(* as a sequence of element values.  0 stands for an uninitialised         *)
(* element and -1 for an element produced by a raw copy that misread       *)
(* memory.                                                                 *)
(***************************************************************************)
Blank(n) == [i \in 1..n |-> 0]

Garbled(n) == [i \in 1..n |-> -1]

\* a blob no operator has written yet
EmptyTensor == [dims |-> <<>>, dtype |-> "none", data |-> <<>>]

\* an input tensor whose element at linear offset k holds the value k + 1
MakeInput(dims, T) ==
  [dims |-> dims, dtype |-> T, data |-> [i \in 1..Prod(dims) |-> i]]

\* Tensor::Resize(dims): sets the shape; the storage is replaced by fresh
\* storage only when the requested size differs from the current one
Resize(t, dims) ==
  [t EXCEPT !.dims = dims,
            !.data = IF Prod(dims) = Len(t.data) THEN t.data
                     ELSE Blank(Prod(dims))]

\* Tensor::mutable_data<T>(): storage of type T for the current shape,
\* allocated afresh when the tensor holds another element type
MutableData(t, T) ==
  IF t.dtype = T THEN t
  ELSE [t EXCEPT !.dtype = T, !.data = Blank(Prod(t.dims))]

\* the element-wise strided copy: the element at each logical index goes
\* from its offset under X_desc to its offset under Y_desc
Relayout(X_desc, xdata, Y_desc, ydata) ==
  LET idxs == Indices(Y_desc.dims)
  IN [k \in 1..Len(ydata) |->
        LET hits == {idx \in idxs : Offset(idx, Y_desc.strides) + 1 = k}
        IN IF hits = {} THEN ydata[k]
           ELSE xdata[Offset(CHOOSE idx \in hits : TRUE, X_desc.strides) + 1]]

\* the copy stays inside a buffer of n elements of type dtype
InBounds(desc, dtype, n) ==
  /\ desc.type = dtype
  /\ Offsets(desc) \subseteq 0..(n - 1)

\* cudnnTransformTensor(handle, 1, X_desc, X, 0, Y_desc, Y): the status and
\* the destination storage afterwards.  A device fault fails the call; so do
\* descriptors that are unset or disagree in extents or element type.  With
\* descriptors that do not describe the buffers the copy reinterprets or
\* overruns raw memory and the destination holds garbage.
TransformTensor(X_desc, X, Y_desc, Y, fault) ==
  IF fault
  THEN [status |-> "EXECUTION_FAILED", data |-> Y.data]
  ELSE IF \/ X_desc = Unset
          \/ Y_desc = Unset
          \/ X_desc.dims # Y_desc.dims
          \/ X_desc.type # Y_desc.type
  THEN [status |-> "BAD_PARAM", data |-> Y.data]
  ELSE IF ~(/\ InBounds(X_desc, X.dtype, Len(X.data))
            /\ InBounds(Y_desc, Y.dtype, Len(Y.data)))
  THEN [status |-> "OK", data |-> Garbled(Len(Y.data))]
  ELSE [status |-> "OK", data |-> Relayout(X_desc, X.data, Y_desc, Y.data)]

(***************************************************************************)
(* State.                                                                  *)
(*   cached_X_dims_, X_desc_, Y_desc_ : the members of each operator       *)
(*          instance, as functions of the operator.                        *)
(*   Y      : the Output(0) blob of each operator instance.                *)
(*   live   : the operator instances that were constructed.                *)
(*   alive  : FALSE once the process has died.                             *)
(*   last   : what the last RunOnDevice call was given and how far it got. *)
(*   rt_src, rt_stage : the tensor a round trip started from and how far   *)
(*          the round trip has got (specification RoundTripSpec).          *)
(*   d_*    : one application of the pure derivation (specification        *)
(*          DeriveSpec): the operator, element type and input dimension    *)
(*          list, and the output dimension list and the two descriptors    *)
(*          computed from them.                                            *)
(***************************************************************************)
VARIABLES cached_X_dims_, X_desc_, Y_desc_, Y, live, alive, last,
          rt_src, rt_stage,
          d_op, d_T, d_X_dims, d_Y_dims, d_X_desc, d_Y_desc, d_done

inst_vars == <<cached_X_dims_, X_desc_, Y_desc_>>

run_vars == <<cached_X_dims_, X_desc_, Y_desc_, Y, live, alive, last>>

rt_vars == <<rt_src, rt_stage>>

d_vars == <<d_op, d_T, d_X_dims, d_Y_dims, d_X_desc, d_Y_desc, d_done>>

vars == <<run_vars, rt_vars, d_vars>>

Ops == {"NHWC2NCHW", "NCHW2NHWC"}

\* the order of the operator's input and of its output
SrcOrder(op) == IF op = "NHWC2NCHW" THEN "NHWC" ELSE "NCHW"
DstOrder(op) == IF op = "NHWC2NCHW" THEN "NCHW" ELSE "NHWC"

\* dimension lists of rank 3..MaxRank with extents 1..MaxExtent
DeriveDims == UNION {SeqsOf(1..MaxExtent, r) : r \in 3..MaxRank}

NoCall ==
  [op |-> "none", T |-> "none", rank |-> 0, same |-> FALSE,
   result |-> "none", resized |-> FALSE, transformed |-> FALSE]

\* the constructor: empty cached_X_dims_, two created descriptors
Constructed(instances) ==
  /\ cached_X_dims_ = [op \in Ops |-> <<>>]
  /\ X_desc_ = [op \in Ops |-> Unset]
  /\ Y_desc_ = [op \in Ops |-> Unset]
  /\ Y = [op \in Ops |-> EmptyTensor]
  /\ live = instances
  /\ alive = TRUE
  /\ last = NoCall

RoundTripIdle ==
  /\ rt_src = EmptyTensor
  /\ rt_stage = 0

DeriveIdle ==
  /\ d_op = "NHWC2NCHW"
  /\ d_T = "float"
  /\ d_X_dims = <<>>
  /\ d_Y_dims = <<>>
  /\ d_X_desc = Unset
  /\ d_Y_desc = Unset
  /\ d_done = TRUE

DeriveInit ==
  /\ d_op \in Ops
  /\ d_T \in DispatchTypes
  /\ d_X_dims \in DeriveDims
  /\ d_Y_dims = <<>>
  /\ d_X_desc = Unset
  /\ d_Y_desc = Unset
  /\ d_done = FALSE
  /\ Constructed({})
  /\ RoundTripIdle

\* the shape and descriptor derivation of CuDNNNHWC2NCHWOp::DoRunWithType
DeriveNHWC2NCHW ==
  /\ ~d_done
  /\ d_op = "NHWC2NCHW"
  /\ d_Y_dims' = NHWC2NCHW_Y_dims(d_X_dims)
  /\ d_X_desc' = SetTensorDescriptor(d_T, "NHWC", d_X_dims, NoUB).desc
  /\ d_Y_desc' = SetTensorDescriptor(d_T, "NCHW", d_Y_dims', NoUB).desc
  /\ d_done' = TRUE
  /\ UNCHANGED <<d_op, d_T, d_X_dims, run_vars, rt_vars>>

\* the shape and descriptor derivation of CuDNNNCHW2NHWCOp::DoRunWithType
DeriveNCHW2NHWC ==
  /\ ~d_done
  /\ d_op = "NCHW2NHWC"
  /\ d_Y_dims' = NCHW2NHWC_Y_dims(d_X_dims)
  /\ d_X_desc' = SetTensorDescriptor(d_T, "NCHW", d_X_dims, NoUB).desc
  /\ d_Y_desc' = SetTensorDescriptor(d_T, "NHWC", d_Y_dims', NoUB).desc
  /\ d_done' = TRUE
  /\ UNCHANGED <<d_op, d_T, d_X_dims, run_vars, rt_vars>>

DeriveNext == DeriveNHWC2NCHW \/ DeriveNCHW2NHWC

DeriveSpec == DeriveInit /\ [][DeriveNext]_vars

(***************************************************************************)
(* The operators.                                                          *)
(***************************************************************************)
\* the words an out-of-range read may yield
UBWords == {0, 1}

UBs == {[crash |-> TRUE, word |-> 0]}
         \cup {[crash |-> FALSE, word |-> w] : w \in UBWords}

\* what the environment decides during one call: whether the device faults
\* in the transform, and how the undefined reads of the two
\* SetTensorDescriptor calls resolve
Envs == [fault : BOOLEAN, ubx : UBs, uby : UBs]

\* the undefined reads happen only for ranks below 3
EnvsFor(X) ==
  {e \in Envs : Len(X.dims) >= 3 => (e.ubx = NoUB /\ e.uby = NoUB)}

\* input dimension lists: rank 2..MaxRunRank, batch extent 0 (the empty
\* batch) or 1, the first and the last of the other extents 2, the ones
\* between 1
RunDims ==
  {<<n>> \o [i \in 1..(r - 1) |-> IF i = 1 \/ i = r - 1 THEN 2 ELSE 1] :
     n \in {0, 1}, r \in 2..MaxRunRank}

RunInputs == {MakeInput(dims, T) : dims \in RunDims, T \in ElemTypes}

\* faulty variant: the descriptors are rebuilt on every call
CacheMissAlways(cached, X_dims) == TRUE

\* if (cached_X_dims_ != X_dims)
CacheMiss(cached, X_dims) == cached # X_dims

\* how a call that got past the dispatch ended
Outcome(setup, transform) ==
  IF setup = "SIGSEGV" THEN "Crash"
  ELSE IF setup # "OK" THEN "DescriptorError"
  ELSE IF transform # "OK" THEN "TransformFailure"
  ELSE "OK"

\* CuDNNNHWC2NCHWOp::DoRunWithType<T>() on the input X
NHWC2NCHW_DoRunWithType(T, X, env) ==
  LET op == "NHWC2NCHW"
      X_dims == X.dims
      Y_dims == NHWC2NCHW_Y_dims(X_dims)
      Yr == Resize(Y[op], Y_dims)
      miss == CacheMiss(cached_X_dims_[op], X_dims)
      sx == SetTensorDescriptor(T, "NHWC", X_dims, env.ubx)
      sy == SetTensorDescriptor(T, "NCHW", Y_dims, env.uby)
      setup == IF ~miss THEN "OK"
               ELSE IF sx.status # "OK" THEN sx.status ELSE sy.status
      xd == IF miss /\ sx.status = "OK" THEN sx.desc ELSE X_desc_[op]
      yd == IF miss /\ setup = "OK" THEN sy.desc ELSE Y_desc_[op]
      Ym == MutableData(Yr, T)
      tr == TransformTensor(xd, X, yd, Ym, env.fault)
  IN /\ cached_X_dims_' =
          [cached_X_dims_ EXCEPT ![op] = IF miss THEN X_dims ELSE @]
     /\ X_desc_' = [X_desc_ EXCEPT ![op] = xd]
     /\ Y_desc_' = [Y_desc_ EXCEPT ![op] = yd]
     /\ Y' = [Y EXCEPT ![op] =
                IF setup # "OK" THEN Yr
                ELSE IF tr.status # "OK" THEN Ym
                ELSE [Ym EXCEPT !.data = tr.data]]
     /\ alive' = (setup # "SIGSEGV")
     /\ last' = [op |-> op, T |-> T, rank |-> Len(X_dims),
                 same |-> (cached_X_dims_[op] = X_dims),
                 result |-> Outcome(setup, tr.status),
                 resized |-> TRUE,
                 transformed |-> (setup = "OK")]

\* CuDNNNCHW2NHWCOp::DoRunWithType<T>() on the input X
NCHW2NHWC_DoRunWithType(T, X, env) ==
  LET op == "NCHW2NHWC"
      X_dims == X.dims
      Y_dims == NCHW2NHWC_Y_dims(X_dims)
      Yr == Resize(Y[op], Y_dims)
      miss == CacheMiss(cached_X_dims_[op], X_dims)
      sx == SetTensorDescriptor(T, "NCHW", X_dims, env.ubx)
      sy == SetTensorDescriptor(T, "NHWC", Y_dims, env.uby)
      setup == IF ~miss THEN "OK"
               ELSE IF sx.status # "OK" THEN sx.status ELSE sy.status
      xd == IF miss /\ sx.status = "OK" THEN sx.desc ELSE X_desc_[op]
      yd == IF miss /\ setup = "OK" THEN sy.desc ELSE Y_desc_[op]
      Ym == MutableData(Yr, T)
      tr == TransformTensor(xd, X, yd, Ym, env.fault)
  IN /\ cached_X_dims_' =
          [cached_X_dims_ EXCEPT ![op] = IF miss THEN X_dims ELSE @]
     /\ X_desc_' = [X_desc_ EXCEPT ![op] = xd]
     /\ Y_desc_' = [Y_desc_ EXCEPT ![op] = yd]
     /\ Y' = [Y EXCEPT ![op] =
                IF setup # "OK" THEN Yr
                ELSE IF tr.status # "OK" THEN Ym
                ELSE [Ym EXCEPT !.data = tr.data]]
     /\ alive' = (setup # "SIGSEGV")
     /\ last' = [op |-> op, T |-> T, rank |-> Len(X_dims),
                 same |-> (cached_X_dims_[op] = X_dims),
                 result |-> Outcome(setup, tr.status),
                 resized |-> TRUE,
                 transformed |-> (setup = "OK")]

\* DispatchHelper<TensorTypes<...>>::call with a tensor of no listed type:
\* throws before the operator body runs
DispatchThrows(op, X) ==
  /\ last' = [op |-> op, T |-> X.dtype, rank |-> Len(X.dims),
              same |-> (cached_X_dims_[op] = X.dims),
              result |-> "UnsupportedTypeError",
              resized |-> FALSE,
              transformed |-> FALSE]
  /\ UNCHANGED <<cached_X_dims_, X_desc_, Y_desc_, Y, alive>>

\* CuDNNNHWC2NCHWOp::RunOnDevice() with Input(0) = X
NHWC2NCHW_RunOnDevice(X) ==
  /\ alive
  /\ "NHWC2NCHW" \in live
  /\ IF X.dtype \in DispatchTypes
     THEN \E env \in EnvsFor(X) : NHWC2NCHW_DoRunWithType(X.dtype, X, env)
     ELSE DispatchThrows("NHWC2NCHW", X)
  /\ UNCHANGED <<live, d_vars>>

\* CuDNNNCHW2NHWCOp::RunOnDevice() with Input(0) = X
NCHW2NHWC_RunOnDevice(X) ==
  /\ alive
  /\ "NCHW2NHWC" \in live
  /\ IF X.dtype \in DispatchTypes
     THEN \E env \in EnvsFor(X) : NCHW2NHWC_DoRunWithType(X.dtype, X, env)
     ELSE DispatchThrows("NCHW2NHWC", X)
  /\ UNCHANGED <<live, d_vars>>

(***************************************************************************)
(* Spec: one operator instance of either class, run any number of times on *)
(* any inputs.                                                             *)
(***************************************************************************)
Init ==
  /\ \E op \in Ops : Constructed({op})
  /\ RoundTripIdle
  /\ DeriveIdle

RunNHWC2NCHW ==
  /\ \E X \in RunInputs : NHWC2NCHW_RunOnDevice(X)
  /\ UNCHANGED rt_vars

RunNCHW2NHWC ==
  /\ \E X \in RunInputs : NCHW2NHWC_RunOnDevice(X)
  /\ UNCHANGED rt_vars

Next == RunNHWC2NCHW \/ RunNCHW2NHWC

Spec == Init /\ [][Next]_vars

(***************************************************************************)
(* RoundTripSpec: a net of one NHWC2NCHW instance followed by one          *)
(* NCHW2NHWC instance that reads the first one's output blob.  The net is  *)
(* fed well-formed channel-last tensors (rank >= 3, positive extents,      *)
(* float or half) only.                                                    *)
(***************************************************************************)
RoundTripInputs ==
  {X \in RunInputs : /\ Len(X.dims) >= 3
                      /\ AllPositive(X.dims)
                      /\ X.dtype \in {"float", "half"}}

RoundTripInit ==
  /\ Constructed(Ops)
  /\ RoundTripIdle
  /\ DeriveIdle

\* the first operator runs on a new input
Convert ==
  /\ \E X \in RoundTripInputs :
        /\ NHWC2NCHW_RunOnDevice(X)
        /\ rt_src' = X
  /\ rt_stage' = IF last'.result = "OK" THEN 1 ELSE 0

\* the second operator runs on the first one's output
ConvertBack ==
  /\ rt_stage >= 1
  /\ NCHW2NHWC_RunOnDevice(Y["NHWC2NCHW"])
  /\ rt_stage' = IF last'.result = "OK" THEN 2 ELSE 1
  /\ UNCHANGED rt_src

RoundTripNext == Convert \/ ConvertBack

RoundTripSpec == RoundTripInit /\ [][RoundTripNext]_vars

(***************************************************************************)
(* Claims about the pure derivation (checked under DeriveSpec).            *)
(***************************************************************************)
\* positions of the descriptor axes from outermost to innermost in memory:
\* N, C, H, W(, D) for NCHW and N, H, W(, D), C for NHWC
Nesting(order, n) ==
  IF order = "NCHW" THEN [i \in 1..n |-> i]
  ELSE [i \in 1..n |-> IF i = 1 THEN 1 ELSE IF i = n THEN 2 ELSE i + 1]

\* the descriptor is fully packed for `order`: the innermost axis has stride
\* 1 and every other axis has the product of the extents nested inside it
PackedFor(order, desc) ==
  LET n == Len(desc.dims)
      nest == Nesting(order, n)
  IN /\ desc.strides[nest[n]] = 1
     /\ \A k \in 1..(n - 1) :
          desc.strides[nest[k]] =
            Prod([j \in 1..(n - k) |-> desc.dims[nest[k + j]]])

\* the index -> offset map of the descriptor is a bijection onto 0..numel-1
BijectiveOnto(desc, numel) ==
  /\ Offsets(desc) = 0..(numel - 1)
  /\ Cardinality(Indices(desc.dims)) = numel

DescriptorOk(order, data_dims, desc) ==
  /\ Len(desc.dims) = IF Len(data_dims) >= 5 THEN 5 ELSE 4
  /\ PackedFor(order, desc)
  /\ BijectiveOnto(desc, Prod(data_dims))

\* C1: for every dimension list of rank >= 3 with positive extents and each
\* layout, the descriptor SetTensorDescriptor builds has stride 1 on the
\* layout's innermost axis, every other stride equal to the product of the
\* extents nested inside that axis, and its index -> offset map is a
\* bijection onto 0 .. (number of elements) - 1.
C1_StridesPacked ==
  d_done =>
    /\ DescriptorOk(SrcOrder(d_op), d_X_dims, d_X_desc)
    /\ DescriptorOk(DstOrder(d_op), d_Y_dims, d_Y_desc)

\* a channel-last list of rank >= 5 with non-unit C, W and collapsed D was
\* derived, with the channel-last strides
C1_Witness ==
  /\ d_done
  /\ d_op = "NHWC2NCHW"
  /\ Len(d_X_dims) >= 5
  /\ d_X_desc.dims[2] > 1
  /\ d_X_desc.dims[4] > 1
  /\ d_X_desc.dims[5] > 1
  /\ d_X_desc.strides = <<d_X_desc.dims[2] * d_X_desc.dims[3]
                            * d_X_desc.dims[4] * d_X_desc.dims[5],
                          1,
                          d_X_desc.dims[4] * d_X_desc.dims[5] * d_X_desc.dims[2],
                          d_X_desc.dims[5] * d_X_desc.dims[2],
                          d_X_desc.dims[2]>>

\* C2: for every input dimension list of rank >= 3 and both directions, the
\* output dimension list is [N, C, spatial...] resp. [N, spatial..., C], has
\* the input's length and the input's product of extents.
C2_OutputShape ==
  d_done =>
    LET r == Len(d_X_dims) IN
    /\ Len(d_Y_dims) = r
    /\ Prod(d_Y_dims) = Prod(d_X_dims)
    /\ d_Y_dims[1] = d_X_dims[1]
    /\ d_op = "NHWC2NCHW" =>
         /\ d_Y_dims[2] = d_X_dims[r]
         /\ \A i \in 3..r : d_Y_dims[i] = d_X_dims[i - 1]
    /\ d_op = "NCHW2NHWC" =>
         /\ d_Y_dims[r] = d_X_dims[2]
         /\ \A i \in 2..(r - 1) : d_Y_dims[i] = d_X_dims[i + 1]

\* a rank-4 channel-second list whose channel extent differs from its last
\* spatial extent was converted
C2_Witness ==
  /\ d_done
  /\ d_op = "NCHW2NHWC"
  /\ Len(d_X_dims) = 4
  /\ d_X_dims[2] # d_X_dims[4]
  /\ d_Y_dims # d_X_dims

\* C6 (original statement): for a rank-5 channel-second input
\* (N, C, D1, D2, D3) the output is (N, D1, D2, D3, C) and the synthetic
\* spatial axis of the descriptor has extent D = D2 * D3.
C6_Original ==
  (d_done /\ d_op = "NCHW2NHWC" /\ Len(d_X_dims) = 5) =>
    /\ d_Y_dims = <<d_X_dims[1], d_X_dims[3], d_X_dims[4], d_X_dims[5],
                    d_X_dims[2]>>
    /\ d_X_desc.dims[5] = d_X_dims[4] * d_X_dims[5]

\* C6 (amended): for a rank-5 channel-second input (N, C, D1, D2, D3) the
\* output is (N, D1, D2, D3, C) and both descriptors have extents
\* (N, C, H = D1, W = D2, D = D3): the synthetic axis collapses the extents
\* after H and W, which for rank 5 is D3 alone.
C6_Rank5 ==
  (d_done /\ d_op = "NCHW2NHWC" /\ Len(d_X_dims) = 5) =>
    /\ d_Y_dims = <<d_X_dims[1], d_X_dims[3], d_X_dims[4], d_X_dims[5],
                    d_X_dims[2]>>
    /\ d_X_desc.dims = <<d_X_dims[1], d_X_dims[2], d_X_dims[3], d_X_dims[4],
                         d_X_dims[5]>>
    /\ d_Y_desc.dims = d_X_desc.dims

\* a rank-5 channel-second list with D2 > 1 was converted
C6_Witness ==
  /\ d_done
  /\ d_op = "NCHW2NHWC"
  /\ Len(d_X_dims) = 5
  /\ d_X_dims[4] > 1
  /\ d_X_dims[5] > 1
  /\ d_X_desc.dims[5] = d_X_dims[5]

(***************************************************************************)
(* Claims about one operator instance (checked under Spec).                *)
(***************************************************************************)
\* the output dimension list of the operator
Y_dimsOf(op, X_dims) ==
  IF op = "NHWC2NCHW" THEN NHWC2NCHW_Y_dims(X_dims)
  ELSE NCHW2NHWC_Y_dims(X_dims)

\* C4: a call whose input dimension list equals the stored last-seen list
\* leaves the instance state (stored dims, source descriptor, destination
\* descriptor) unchanged; the instance state changes only on a call whose
\* input dims differ from the stored dims.
C4_CacheHitNoOp ==
  [][last'.same => UNCHANGED inst_vars]_vars

\* a call on the stored dimension list went through to the transform
C4_Witness ==
  /\ last.same
  /\ last.result = "OK"
  /\ last.transformed
  /\ cached_X_dims_[last.op] # <<>>

\* C5: a call whose input has rank < 3 fails with RankError, before the
\* destination is resized and before the transform is invoked.
C5_RankError ==
  (last.op # "none" /\ last.rank < 3 /\ last.T \in {"float", "half"}) =>
    /\ last.result = "RankError"
    /\ ~last.resized
    /\ ~last.transformed

\* C7: a call on a well-ranked input that fails in the descriptor setup or
\* in the transform leaves the destination blob (shape and contents) as it
\* was before the call.
C7_NoPartialOutput ==
  [][(last'.rank >= 3
       /\ last'.result \in {"DescriptorError", "TransformFailure"})
      => Y' = Y]_vars

\* C8: a call whose input element type is outside {float32, float16} fails
\* with UnsupportedTypeError without resizing the destination, changing the
\* cached state or invoking the transform.
C8_UnsupportedType ==
  [][last'.T \notin {"float", "half"} =>
       /\ last'.result = "UnsupportedTypeError"
       /\ ~last'.resized
       /\ ~last'.transformed
       /\ UNCHANGED <<cached_X_dims_, X_desc_, Y_desc_, Y>>]_vars

\* a double tensor was refused by an instance that had already converted
C8_Witness ==
  /\ last.T = "double"
  /\ last.result = "UnsupportedTypeError"
  /\ cached_X_dims_[last.op] # <<>>
  /\ Y[last.op] # EmptyTensor

\* C9: whenever the transform is invoked for a float or half input of rank
\* >= 3 (on descriptors that have been set), the element type tag of both
\* stored descriptors equals the element type of the current call's input.
C9_DescriptorTypeCurrent ==
  (/\ last.transformed
   /\ last.rank >= 3
   /\ X_desc_[last.op] # Unset
   /\ Y_desc_[last.op] # Unset) =>
    /\ X_desc_[last.op].type = last.T
    /\ Y_desc_[last.op].type = last.T

\* C10: in every reachable state, if the stored dimension list is a list of
\* rank >= 3 then both stored descriptors are the ones derived from it
\* (source layout for X_desc_, destination layout for Y_desc_).
C10_CacheCoherent ==
  \A op \in live :
    Len(cached_X_dims_[op]) >= 3 =>
      LET sx == SetTensorDescriptor(X_desc_[op].type, SrcOrder(op),
                                    cached_X_dims_[op], NoUB)
          sy == SetTensorDescriptor(Y_desc_[op].type, DstOrder(op),
                                    Y_dimsOf(op, cached_X_dims_[op]), NoUB)
      IN /\ sx.status = "OK"
         /\ sy.status = "OK"
         /\ X_desc_[op] = sx.desc
         /\ Y_desc_[op] = sy.desc

(***************************************************************************)
(* Claim about the round trip (checked under RoundTripSpec).               *)
(***************************************************************************)
\* C3: converting a channel-last tensor of rank >= 3 to channel-second and
\* the result back to channel-last yields the original dimension list and,
\* at every linear offset, the original element value.
C3_RoundTrip ==
  rt_stage = 2 =>
    /\ Y["NCHW2NHWC"].dims = rt_src.dims
    /\ Y["NCHW2NHWC"].data = rt_src.data

\* Auxiliary: while both instances' descriptors carry the element type of
\* the tensor the round trip started from, the round trip reproduces the
\* dimension list and every element value.
RoundTripCoherent ==
  (/\ rt_stage = 2
   /\ X_desc_["NHWC2NCHW"].type = rt_src.dtype
   /\ X_desc_["NCHW2NHWC"].type = rt_src.dtype) =>
    /\ Y["NCHW2NHWC"].dims = rt_src.dims
    /\ Y["NCHW2NHWC"].data = rt_src.data

=============================================================================
